---- MODULE Spec2Model ----
(***************************************************************************)
(* agent-gui (src/tools/agent-gui/gui_ops.py): the snapshot and @ref       *)
(* engine.  GUISession holds the persisted session dict and the in-memory  *)
(* ref table (_element_cache, _ref_counter); MacOSGUI walks the live       *)
(* accessibility tree, mints refs and dispatches actions on resolved refs; *)
(* main() maps each result onto an exit code.                              *)
(*                                                                         *)
(* The accessibility provider (AXUIElement..., NSWorkspace) is the         *)
(* environment: applications, their window, the element tree with each     *)
(* element's AXRole / AXTitle, and the keyboard focus.  It changes on its   *)
(* own between commands.                                                   *)
(***************************************************************************)
EXTENDS Integers, Sequences, FiniteSets, TLC

\* ------------------------------------------------------------- bounds
MaxNodes == 4
MaxDepth == 2
MaxSteps == 3
\* the longest wait timeout, and the longest a predicate check takes, in ticks
MaxTimeout == 3
MaxCheck == 1

\* ------------------------------------------------ program constants
EXIT_SUCCESS == 0
EXIT_APP_NOT_FOUND == 1
EXIT_WINDOW_NOT_FOUND == 2
EXIT_ELEMENT_NOT_FOUND == 3
EXIT_ACTION_FAILED == 4
EXIT_TIMEOUT == 5
HistoryLimit == 100
DefaultMaxDepth == 10
\* the exit status of the interpreter when an exception leaves main()
EXIT_UNCAUGHT == 1
\* time.sleep(0.5) between two polls of a wait, in ticks of a quarter second
PollTicks == 2

\* ------------------------------------------------------ the provider
Procs == {"p1", "p2"}
Apps == {"Notes", "Finder"}
\* what a caller passes to snapshot: no name (the frontmost application), the
\* name of Notes, or the name of an application that is not running
AppNames == {"None", "Notes", "Ghost"}
PidOf(a) == IF a = "Notes" THEN "pid501" ELSE "pid502"

\* Elements 1..MaxNodes are the tree of the Notes window (element 1); element
\* MaxNodes + 1 is the Finder window, which has no children.
TreeNodes == 1..MaxNodes
Elements == 1..(MaxNodes + 1)
WindowOf(a) == IF a = "Notes" THEN 1 ELSE MaxNodes + 1
AppOf(e) == IF e \in TreeNodes THEN "Notes" ELSE "Finder"
ParentOf(n) == n \div 2
RECURSIVE IsUnder(_, _)
IsUnder(n, anc) == n = anc \/ (n > 1 /\ n \in TreeNodes /\ IsUnder(ParentOf(n), anc))

Roles == {"AXWindow", "AXGroup", "AXButton", "AXTextField"}
Labels == {"", "OK"}
InitRole(e) ==
    IF e = 1 \/ e = MaxNodes + 1 THEN "AXWindow"
    ELSE IF e % 3 = 2 THEN "AXGroup"
    ELSE IF e % 3 = 0 THEN "AXButton"
    ELSE "AXTextField"
InitLabel(e) == IF e % 3 = 0 THEN "OK" ELSE ""

VARIABLES
    running,      \* applications that are running
    frontmost,    \* the frontmost application, or "None"
    hasWindow,    \* application -> whether it has a window
    attached,     \* elements currently in their window's tree
    role,         \* element -> AXRole
    label,        \* element -> AXTitle
    unreadable,   \* elements whose attribute reads return an error
    focus,        \* the element holding keyboard focus, or 0
    disk,         \* SESSION_FILE: <<>> when absent, else <<session dict>>
    started,      \* process -> whether it is running
    state,        \* process -> GUISession.state
    cache,        \* process -> GUISession._element_cache (ref number -> element)
    counter,      \* process -> GUISession._ref_counter
    handed,       \* process -> the element dicts its snapshots returned
    wait,         \* process -> the wait command it is in (its position in the loop)
    out,          \* what the last command did and reported
    steps         \* steps taken so far (also the clock of datetime.now())

worldVars == <<running, frontmost, hasWindow, attached, role, label, unreadable>>
procVars == <<started, state, cache, counter, handed, wait>>
vars == <<running, frontmost, hasWindow, attached, role, label, unreadable, focus, disk,
          started, state, cache, counter, handed, wait, out, steps>>

\* ---------------------------------------------------- provider reads
\* A handle is live while its element is in the tree of an open window of a
\* running application; any call on a dead handle returns an error.
Live(e) == e \in attached /\ AppOf(e) \in running /\ hasWindow[AppOf(e)]

\* _get_attribute: AXUIElementCopyAttributeValue answers 0 for a live element
\* that responds; the value is None on any error
Reads(e) == Live(e) /\ e \notin unreadable

\* _get_attribute(element, "AXRole") or ""
AXRole(e) == IF Reads(e) THEN role[e] ELSE ""
\* _get_attribute(element, "AXTitle") or ""
AXTitle(e) == IF Reads(e) THEN label[e] ELSE ""

RECURSIVE KidsFrom(_, _)
KidsFrom(e, c) ==
    IF c > MaxNodes THEN <<>>
    ELSE (IF ParentOf(c) = e /\ c \in attached THEN <<c>> ELSE <<>>) \o KidsFrom(e, c + 1)
\* _get_attribute(element, "AXChildren"): the children in provider order
AXChildren(e) == IF Reads(e) /\ e \in TreeNodes THEN KidsFrom(e, 2) ELSE <<>>

\* ---------------------------------------------------------- GUISession
EmptyCache == [r \in {} |-> 0]
NoElement == 0

DefaultState ==
    [app |-> "None", pid |-> "None", window |-> "None",
     last_snapshot |-> <<>>, history |-> <<>>]

\* _load_state: the file's dict, or the default dict when there is no file
load_state == IF disk = <<>> THEN DefaultState ELSE disk[1]

\* dict[key] = value
DictSet(d, k, v) == [x \in DOMAIN d \cup {k} |-> IF x = k THEN v ELSE d[x]]

\* set_app, before its save
set_app(st, name, pid) == DictSet(DictSet(st, "app", name), "pid", pid)

\* the trim keeping the first entries in place of the last
TrimmedKeepsOldest(h) ==
    IF Len(h) > HistoryLimit THEN SubSeq(h, 1, HistoryLimit) ELSE h

\* the history list after add_history's append and trim
Trimmed(h) ==
    IF Len(h) > HistoryLimit THEN SubSeq(h, Len(h) - HistoryLimit + 1, Len(h)) ELSE h
add_history(st, action, ref) ==
    DictSet(st, "history",
            Trimmed(Append(st.history, [action |-> action, ref |-> ref, timestamp |-> steps])))

\* add_history's self.state["history"]: a KeyError when the loaded dict has no
\* such key
CanRecord(st) == "history" \in DOMAIN st

\* get_ref without the increment of _ref_counter: every element gets the same ref
get_ref_no_increment(t, element) ==
    [counter |-> t.counter,
     cache |-> [r \in DOMAIN t.cache \cup {t.counter} |->
                   IF r = t.counter THEN element ELSE t.cache[r]]]

\* get_ref on a table t = [counter, cache]: the ref minted is the new counter
get_ref(t, element) ==
    [counter |-> t.counter + 1,
     cache |-> [r \in DOMAIN t.cache \cup {t.counter + 1} |->
                   IF r = t.counter + 1 THEN element ELSE t.cache[r]]]

resolve_ref(p, ref) == IF ref \in DOMAIN cache[p] THEN cache[p][ref] ELSE NoElement

\* clear_cache: the table before a new snapshot
clear_cache(t) == [counter |-> 0, cache |-> EmptyCache]

\* ------------------------------------------------------- the tree walk
interactive_roles ==
    {"AXButton", "AXTextField", "AXTextArea", "AXCheckBox", "AXRadioButton",
     "AXPopUpButton", "AXComboBox", "AXSlider", "AXStepper", "AXTable",
     "AXList", "AXOutline", "AXRow", "AXCell", "AXMenuItem", "AXMenu",
     "AXLink", "AXTab", "AXTabGroup", "AXDisclosureTriangle"}

\* role.replace("AX", "").lower()
ShortRole(r) ==
    CASE r = "" -> ""
      [] r = "AXWindow" -> "window"
      [] r = "AXGroup" -> "group"
      [] r = "AXButton" -> "button"
      [] r = "AXTextField" -> "textfield"
      [] r = "AXTextArea" -> "textarea"
      [] r = "AXCheckBox" -> "checkbox"
      [] r = "AXRadioButton" -> "radiobutton"
      [] r = "AXPopUpButton" -> "popupbutton"
      [] r = "AXComboBox" -> "combobox"
      [] r = "AXSlider" -> "slider"
      [] r = "AXStepper" -> "stepper"
      [] r = "AXTable" -> "table"
      [] r = "AXList" -> "list"
      [] r = "AXOutline" -> "outline"
      [] r = "AXRow" -> "row"
      [] r = "AXCell" -> "cell"
      [] r = "AXMenuItem" -> "menuitem"
      [] r = "AXMenu" -> "menu"
      [] r = "AXLink" -> "link"
      [] r = "AXTab" -> "tab"
      [] r = "AXTabGroup" -> "tabgroup"
      [] r = "AXDisclosureTriangle" -> "disclosuretriangle"

\* [r.replace("AX", "").lower() for r in interactive_roles]
short_interactive_roles == {ShortRole(r) : r \in interactive_roles}

\* the child loop's test with the interactive_only flag read the wrong way round
KeepChildInverted(child_dict, interactive_only) ==
    ~interactive_only =>
        (child_dict.has_interactive \/ child_dict.role \in short_interactive_roles)

\* the child loop's test: is this child dict appended to child_dicts
KeepChild(child_dict, interactive_only) ==
    interactive_only =>
        (child_dict.has_interactive \/ child_dict.role \in short_interactive_roles)

\* the recursive call passing depth instead of depth + 1
ChildDepthSame(depth) == depth

\* the depth the walk passes down for a child
ChildDepth(depth) == depth + 1

\* whether the walk descends into the children of a node at this depth
Descends(depth, max_depth) == depth < max_depth

\* _element_to_dict on the table t = [counter, cache].  Returns the table after
\* the walk and the element dict (<<>> for None, <<dict>> otherwise).  A dict is
\* [ref, element, role, label, children, children_data, has_interactive]; element
\* is not a key of the program's dict: it names the handle the dict describes.
RECURSIVE element_to_dict(_, _, _, _, _)
RECURSIVE walk_children(_, _, _, _, _, _)

\* the one element of a singleton set (used to evaluate a walk once)
Only(S) == CHOOSE x \in S : TRUE

\* the element dict with _has_interactive set from the element's own role only
ElemDictOwnRoleOnly(element, ref, child_dicts) ==
    [ref |-> ref,
     element |-> element,
     role |-> ShortRole(AXRole(element)),
     label |-> AXTitle(element),
     children |-> [i \in 1..Len(child_dicts) |-> child_dicts[i].ref],
     children_data |-> child_dicts,
     has_interactive |-> AXRole(element) \in interactive_roles]

\* the element dict built from the minted ref and the walked children
ElemDict(element, ref, child_dicts) ==
    [ref |-> ref,
     element |-> element,
     role |-> ShortRole(AXRole(element)),
     label |-> AXTitle(element),
     children |-> [i \in 1..Len(child_dicts) |-> child_dicts[i].ref],
     children_data |-> child_dicts,
     has_interactive |->
         (AXRole(element) \in interactive_roles \/
          \E i \in 1..Len(child_dicts) : child_dicts[i].has_interactive)]

element_to_dict(element, depth, max_depth, interactive_only, t) ==
    IF depth > max_depth THEN [table |-> t, dict |-> <<>>]
    ELSE
        Only({ [table |-> sub.table,
                dict |-> <<ElemDict(element, get_ref(t, element).counter,
                                    sub.dicts)>>] :
               sub \in { IF AXChildren(element) # <<>> /\ Descends(depth, max_depth)
                         THEN walk_children(AXChildren(element), depth, max_depth,
                                            interactive_only, get_ref(t, element), <<>>)
                         ELSE [table |-> get_ref(t, element), dicts |-> <<>>] } })

\* the loop over children: each child is walked at depth + 1 and appended when
\* it came back and passes the interactive filter
walk_children(children, depth, max_depth, interactive_only, t, acc) ==
    IF children = <<>> THEN [table |-> t, dicts |-> acc]
    ELSE
        Only({ walk_children(Tail(children), depth, max_depth, interactive_only,
                             res.table,
                             IF res.dict # <<>> /\ KeepChild(res.dict[1], interactive_only)
                             THEN Append(acc, res.dict[1]) ELSE acc) :
               res \in { element_to_dict(Head(children), ChildDepth(depth), max_depth,
                                         interactive_only, t) } })

\* _flatten_elements: the dict without its nested data, then its children's
RECURSIVE flatten_elements(_)
RECURSIVE flatten_all(_)
\* the flattening that appends the dict after its children's
flatten_children_first(elem_dict) ==
    flatten_all(elem_dict.children_data)
    \o << [ref |-> elem_dict.ref, element |-> elem_dict.element, role |-> elem_dict.role,
           label |-> elem_dict.label, children |-> elem_dict.children] >>
flatten_elements(elem_dict) ==
    << [ref |-> elem_dict.ref, element |-> elem_dict.element, role |-> elem_dict.role,
        label |-> elem_dict.label, children |-> elem_dict.children] >>
    \o flatten_all(elem_dict.children_data)
flatten_all(dicts) ==
    IF dicts = <<>> THEN <<>> ELSE flatten_elements(Head(dicts)) \o flatten_all(Tail(dicts))

\* find_app: the running application of that name ("None" when there is none)
find_app(name) == IF name \in running THEN name ELSE "None"

\* MacOSGUI.snapshot on the memory m = [state, counter, cache] of a process with
\* the session file d: the memory and file afterwards and the value returned
\* (kind "none" for None, "warning" for the no-window dict, "snapshot" otherwise).
snapshot(m, d, app_name, interactive_only, max_depth) ==
    LET t0 == clear_cache([counter |-> m.counter, cache |-> m.cache])
        app == IF app_name # "None" THEN find_app(app_name) ELSE frontmost
    IN  IF app = "None"
        THEN [state |-> m.state, counter |-> t0.counter, cache |-> t0.cache, disk |-> d,
              kind |-> "none", app |-> "None", elements |-> <<>>]
        ELSE
            LET st1 == set_app(m.state, app, PidOf(app))
            IN  IF ~hasWindow[app]
                THEN [state |-> st1, counter |-> t0.counter, cache |-> t0.cache,
                      disk |-> <<st1>>,
                      kind |-> "warning", app |-> app, elements |-> <<>>]
                ELSE
                    Only({ [state |-> DictSet(st1, "last_snapshot", <<steps>>),
                            counter |-> w.table.counter,
                            cache |-> w.table.cache,
                            disk |-> <<DictSet(st1, "last_snapshot", <<steps>>)>>,
                            kind |-> "snapshot", app |-> app,
                            elements |-> IF w.dict # <<>>
                                         THEN flatten_elements(w.dict[1]) ELSE <<>>] :
                           w \in { element_to_dict(WindowOf(app), 0, max_depth,
                                                   interactive_only, t0) } })

\* main's exit code for a snapshot result
SnapshotExit(kind) == IF kind = "none" THEN EXIT_APP_NOT_FOUND ELSE EXIT_SUCCESS

\* the element dicts of an element list
Handed(elements) == {elements[i] : i \in 1..Len(elements)}

\* what the snapshot's target is in the environment: "absent" when no such
\* application is running, "nowindow" when it runs without a window
TargetOf(app_name) ==
    LET a == IF app_name = "None" THEN frontmost ELSE app_name
    IN  IF a \notin running THEN "absent"
        ELSE IF ~hasWindow[a] THEN "nowindow"
        ELSE "window"

\* A ref of process p is stale when the element it is bound to has left the
\* live tree, or no longer has the role and label a snapshot of p reported for
\* it under that ref.
Stale(p, ref) ==
    /\ ref \in DOMAIN cache[p]
    /\ \E d \in handed[p] :
          /\ d.ref = ref /\ d.element = cache[p][ref]
          /\ \/ ~Live(d.element)
             \/ ShortRole(AXRole(d.element)) # d.role
             \/ AXTitle(d.element) # d.label

\* ---------------------------------------------------------- observation
NoOut ==
    [proc |-> "None", cmd |-> "none", ref |-> 0, arg |-> "None", exit |-> 0,
     kind |-> "none", resolved |-> NoElement, performed |-> <<>>, keys |-> <<>>,
     elements |-> <<>>, interactive_only |-> FALSE, max_depth |-> 0, minted |-> {},
     target |-> "None", stale |-> FALSE, at |-> 0,
     matches |-> <<>>, snaps |-> 0, criteria |-> <<>>, elapsed |-> 0, polls |-> <<>>,
     sleeps |-> 0, timeout |-> 0, wait |-> "None", after |-> FALSE]

\* a process that is not in a wait command
NoWait == <<>>

\* the observation of a command of p, taken as step number steps + 1
Ran(p, cmd) == [NoOut EXCEPT !.proc = p, !.cmd = cmd, !.at = steps + 1]

\* whether the step just before this one was a get or inspect of the same
\* process that resolved the same ref
JustResolved(p, ref) ==
    /\ out.cmd \in {"get", "inspect"} /\ out.proc = p /\ out.at = steps
    /\ out.ref = ref /\ out.resolved # NoElement

\* ---------------------------------------------------------------- Init
Init ==
    /\ running = Apps
    /\ frontmost = "Notes"
    /\ hasWindow = [a \in Apps |-> TRUE]
    /\ attached = Elements
    /\ role = [e \in Elements |-> InitRole(e)]
    /\ label = [e \in Elements |-> InitLabel(e)]
    /\ unreadable = {}
    /\ focus = WindowOf("Notes")
    /\ disk = <<>>
    /\ started = [p \in Procs |-> FALSE]
    /\ state = [p \in Procs |-> DefaultState]
    /\ cache = [p \in Procs |-> EmptyCache]
    /\ counter = [p \in Procs |-> 0]
    /\ handed = [p \in Procs |-> {}]
    /\ wait = [p \in Procs |-> NoWait]
    /\ out = NoOut
    /\ steps = 0

\* ------------------------------------------------------- the environment
\* (a change before the first invocation starts is a different first tree: the
\* changes are counted from the start of p1)
EnvStep == started["p1"] /\ steps < MaxSteps /\ steps' = steps + 1

Quit(a) ==
    /\ EnvStep
    /\ a \in running
    /\ running' = running \ {a}
    /\ frontmost' = IF frontmost # a THEN frontmost
                    ELSE IF running \ {a} = {} THEN "None"
                    ELSE CHOOSE b \in running \ {a} : TRUE
    /\ focus' = IF focus # NoElement /\ AppOf(focus) = a THEN NoElement ELSE focus
    /\ UNCHANGED <<unreadable, hasWindow, attached, role, label, disk, procVars, out>>

Activate(a) ==
    /\ EnvStep
    /\ a \in running /\ frontmost # a
    /\ frontmost' = a
    /\ UNCHANGED <<unreadable, running, hasWindow, attached, role, label, focus, disk, procVars,
                   out>>

CloseWindow(a) ==
    /\ EnvStep
    /\ a \in running /\ hasWindow[a]
    /\ hasWindow' = [hasWindow EXCEPT ![a] = FALSE]
    /\ focus' = IF focus # NoElement /\ AppOf(focus) = a THEN NoElement ELSE focus
    /\ UNCHANGED <<unreadable, running, frontmost, attached, role, label, disk, procVars, out>>

\* the application redraws: the subtree of n leaves the tree
RemoveSubtree(n) ==
    /\ EnvStep
    /\ n \in TreeNodes /\ n > 1 /\ n \in attached
    /\ attached' = {e \in attached : ~(e \in TreeNodes /\ IsUnder(e, n))}
    /\ focus' = IF focus \in TreeNodes /\ IsUnder(focus, n) THEN NoElement ELSE focus
    /\ UNCHANGED <<unreadable, running, frontmost, hasWindow, role, label, disk, procVars, out>>

SetLabel(n, l) ==
    /\ EnvStep
    /\ n \in TreeNodes /\ n > 1 /\ Live(n) /\ label[n] # l
    /\ label' = [label EXCEPT ![n] = l]
    /\ UNCHANGED <<unreadable, running, frontmost, hasWindow, attached, role, focus, disk, procVars,
                   out>>

SetRole(n, r) ==
    /\ EnvStep
    /\ n \in TreeNodes /\ n > 1 /\ Live(n) /\ role[n] # r /\ r = "AXGroup"
    /\ role' = [role EXCEPT ![n] = r]
    /\ UNCHANGED <<unreadable, running, frontmost, hasWindow, attached, label, focus, disk, procVars,
                   out>>

\* ---------------------------------------------------------- processes
\* main(): GUISession() loads the session file; the ref table starts empty
Start(p) ==
    /\ ~started[p]
    /\ p = "p2" => started["p1"]
    /\ started' = [started EXCEPT ![p] = TRUE]
    /\ state' = [state EXCEPT ![p] = load_state]
    /\ cache' = [cache EXCEPT ![p] = EmptyCache]
    /\ counter' = [counter EXCEPT ![p] = 0]
    /\ handed' = [handed EXCEPT ![p] = {}]
    /\ out' = [NoOut EXCEPT !.proc = p, !.cmd = "start", !.at = steps]
    /\ UNCHANGED <<worldVars, focus, disk, steps, wait>>

\* a command of process p: counted, and stamped with the clock
CmdStep(p) == started[p] /\ wait[p] = NoWait /\ steps < MaxSteps /\ steps' = steps + 1

Mem(p) == [state |-> state[p], counter |-> counter[p], cache |-> cache[p]]

\* the snapshot command: MacOSGUI.snapshot, then main's output / error
Snapshot(p, app_name, interactive_only, max_depth) ==
    /\ CmdStep(p)
    /\ \E s \in {snapshot(Mem(p), disk, app_name, interactive_only, max_depth)} :
           /\ state' = [state EXCEPT ![p] = s.state]
           /\ cache' = [cache EXCEPT ![p] = s.cache]
           /\ counter' = [counter EXCEPT ![p] = s.counter]
           /\ disk' = s.disk
           /\ handed' = [handed EXCEPT ![p] = @ \cup Handed(s.elements)]
           /\ out' = [Ran(p, "snapshot") EXCEPT !.arg = app_name,
                                   !.kind = s.kind, !.exit = SnapshotExit(s.kind),
                                   !.elements = s.elements,
                                   !.interactive_only = interactive_only,
                                   !.max_depth = max_depth,
                                   !.minted = DOMAIN s.cache,
                                   !.target = TargetOf(app_name)]
    /\ UNCHANGED <<worldVars, focus, started, wait>>

\* reset without the two lines that clear _element_cache and _ref_counter
ResetKeepsTable(p) ==
    /\ CmdStep(p)
    /\ state' = [state EXCEPT ![p] = DefaultState]
    /\ disk' = <<DefaultState>>
    /\ out' = [Ran(p, "reset") EXCEPT !.kind = "reset",
                            !.exit = EXIT_SUCCESS]
    /\ UNCHANGED <<worldVars, focus, started, handed, wait, cache, counter>>

\* the reset command: GUISession.reset
Reset(p) ==
    /\ CmdStep(p)
    /\ state' = [state EXCEPT ![p] = DefaultState]
    /\ cache' = [cache EXCEPT ![p] = EmptyCache]
    /\ counter' = [counter EXCEPT ![p] = 0]
    /\ disk' = <<DefaultState>>
    /\ out' = [Ran(p, "reset") EXCEPT !.kind = "reset",
                            !.exit = EXIT_SUCCESS]
    /\ UNCHANGED <<worldVars, focus, started, handed, wait>>

\* ------------------------------------------------- actions on a ref
\* refs a caller may pass: @g1 .. @g<MaxNodes + 1> (the last is never minted)
Refs == 1..(MaxNodes + 1)
\* the type command without a ref
NoRef == 0

\* click's action_map.get(action.lower(), ...)
action_map(action) ==
    CASE action = "press" -> "AXPress"
      [] action = "click" -> "AXPress"
      [] action = "showmenu" -> "AXShowMenu"
      [] action = "pick" -> "AXPick"
      [] action = "increment" -> "AXIncrement"
      [] action = "decrement" -> "AXDecrement"
      [] action = "confirm" -> "AXConfirm"
      [] action = "cancel" -> "AXCancel"
      [] action = "expand" -> "AXExpand"
      [] action = "collapse" -> "AXCollapse"
ClickActions == {"press", "showmenu"}

\* The provider's answers to AXUIElementPerformAction / AXUIElementSetAttributeValue:
\* 0 or an error on a live element, always an error on a dead handle.
ProviderErrs(e) == IF Live(e) THEN {0, -25200} ELSE {-25202}

\* the focus after AXUIElementSetAttributeValue(element, "AXFocused", True):
\* a live element may take it, a dead handle never does
FocusAfter(e) == IF Live(e) THEN {focus, e} ELSE {focus}

\* main's branch without its test for None: output(result) always
ResultExitAlwaysOutput(kind) == EXIT_SUCCESS

\* main's exit code for the result of click / fill / get / inspect: None is the
\* only result that is not truthy
ResultExit(kind) == IF kind = "none" THEN EXIT_ELEMENT_NOT_FOUND ELSE EXIT_SUCCESS

\* a click that falls back to AXPress after any failure, a failed AXPress too
TriesFallbackAfterPress(err, ax_action) == err # 0

\* click's second AXUIElementPerformAction: whether AXPress is tried as fallback
TriesFallback(err, ax_action) == err # 0 /\ ax_action # "AXPress"

\* click's test for recording the action
Records(err) == err = 0

\* MacOSGUI.click, then main's click / rightclick / action branch
Click(p, ref, action) ==
    /\ CmdStep(p)
    /\ LET element == resolve_ref(p, ref)
       IN  IF element = NoElement
           THEN /\ out' = [Ran(p, "click") EXCEPT !.ref = ref,
                                        !.arg = action, !.kind = "none",
                                        !.exit = ResultExit("none")]
                /\ UNCHANGED <<state, disk>>
           ELSE \E err1 \in ProviderErrs(element), err2 \in ProviderErrs(element) :
                LET ax_action == action_map(action)
                    fallback == TriesFallback(err1, ax_action)
                    err == IF fallback THEN err2 ELSE err1
                    calls == <<[element |-> element, action |-> ax_action, err |-> err1]>>
                             \o (IF fallback
                                 THEN <<[element |-> element, action |-> "AXPress",
                                         err |-> err2]>>
                                 ELSE <<>>)
                    crash == Records(err) /\ ~CanRecord(state[p])
                    kind == IF crash THEN "crash" ELSE IF err = 0 THEN "clicked" ELSE "error"
                    st == IF Records(err) /\ ~crash THEN add_history(state[p], "click", ref)
                          ELSE state[p]
                IN  /\ fallback \/ err2 = err1
                    /\ state' = [state EXCEPT ![p] = st]
                    /\ disk' = IF Records(err) /\ ~crash THEN <<st>> ELSE disk
                    /\ out' = [Ran(p, "click") EXCEPT !.ref = ref,
                                            !.arg = action, !.kind = kind,
                                            !.stale = Stale(p, ref),
                                            !.resolved = element, !.performed = calls,
                                            !.exit = IF crash THEN EXIT_UNCAUGHT
                                                     ELSE ResultExit(kind)]
    /\ UNCHANGED <<worldVars, focus, started, cache, counter, handed, wait>>

\* type_text's guard for touching the element: a ref was given and it resolved
TypeResolves(p, ref) == ref # NoRef /\ resolve_ref(p, ref) # NoElement

\* type_text whose add_history does not reach _save_state: the session changes
\* in memory only
TypeTextNoSave(p, ref) ==
    /\ CmdStep(p)
    /\ LET element == IF ref = NoRef THEN NoElement ELSE resolve_ref(p, ref)
           st == add_history(state[p], "type", ref)
       IN  /\ focus' \in (IF ref # NoRef /\ element # NoElement
                          THEN FocusAfter(element) ELSE {focus})
           /\ state' = [state EXCEPT ![p] = st]
           /\ disk' = disk
           /\ out' = [Ran(p, "type") EXCEPT !.ref = ref, !.kind = "typed",
                                            !.resolved = element,
                                            !.stale = Stale(p, ref),
                                            !.keys = <<focus'>>,
                                            !.exit = EXIT_SUCCESS]
    /\ UNCHANGED <<worldVars, started, cache, counter, handed, wait>>

\* MacOSGUI.type_text, then main's type branch (output(result), exit 0).
\* The keystrokes go to whichever element holds the focus.
TypeText(p, ref) ==
    /\ CmdStep(p)
    /\ LET element == IF ref = NoRef THEN NoElement ELSE resolve_ref(p, ref)
           crash == ~CanRecord(state[p])
           st == IF crash THEN state[p] ELSE add_history(state[p], "type", ref)
       IN  /\ focus' \in (IF TypeResolves(p, ref) THEN FocusAfter(element) ELSE {focus})
           /\ state' = [state EXCEPT ![p] = st]
           /\ disk' = IF crash THEN disk ELSE <<st>>
           /\ out' = [Ran(p, "type") EXCEPT !.ref = ref,
                                            !.kind = IF crash THEN "crash" ELSE "typed",
                                            !.resolved = element,
                                            !.stale = Stale(p, ref),
                                            !.keys = <<focus'>>,
                                            !.exit = IF crash THEN EXIT_UNCAUGHT
                                                     ELSE EXIT_SUCCESS]
    /\ UNCHANGED <<worldVars, started, cache, counter, handed, wait>>

\* MacOSGUI.fill, then main's fill branch.  When the provider rejects the
\* AXValue write, fill focuses the element, sends Cmd+A and calls type_text(text)
\* with no ref.
Fill(p, ref) ==
    /\ CmdStep(p)
    /\ LET element == resolve_ref(p, ref)
       IN  IF element = NoElement
           THEN /\ out' = [Ran(p, "fill") EXCEPT !.ref = ref,
                                        !.kind = "none", !.exit = ResultExit("none")]
                /\ UNCHANGED <<state, disk, focus>>
           ELSE \E err \in ProviderErrs(element) :
                LET call == <<[element |-> element, action |-> "AXValue", err |-> err]>>
                    crash == ~CanRecord(state[p])
                IN  IF err = 0
                    THEN LET st == IF crash THEN state[p]
                                   ELSE add_history(state[p], "fill", ref)
                         IN  /\ state' = [state EXCEPT ![p] = st]
                             /\ disk' = IF crash THEN disk ELSE <<st>>
                             /\ focus' = focus
                             /\ out' = [Ran(p, "fill") EXCEPT
                                           !.ref = ref,
                                           !.kind = IF crash THEN "crash" ELSE "filled",
                                           !.stale = Stale(p, ref),
                                           !.resolved = element,
                                           !.performed = call,
                                           !.exit = IF crash THEN EXIT_UNCAUGHT
                                                    ELSE ResultExit("filled")]
                    ELSE LET st == IF crash THEN state[p]
                                   ELSE add_history(state[p], "type", NoRef)
                         IN  /\ focus' \in FocusAfter(element)
                             /\ state' = [state EXCEPT ![p] = st]
                             /\ disk' = IF crash THEN disk ELSE <<st>>
                             /\ out' = [Ran(p, "fill") EXCEPT
                                           !.ref = ref,
                                           !.kind = IF crash THEN "crash" ELSE "typed",
                                           !.stale = Stale(p, ref),
                                           !.resolved = element,
                                           !.performed = call,
                                           !.keys = <<focus', focus'>>,
                                           !.exit = IF crash THEN EXIT_UNCAUGHT
                                                    ELSE ResultExit("typed")]
    /\ UNCHANGED <<worldVars, started, cache, counter, handed, wait>>

\* get / inspect with a lookup that takes the binding out of the table
\* (_element_cache.pop(ref, None) in place of the read)
GetAndForget(p, ref, cmd) ==
    /\ CmdStep(p)
    /\ LET element == resolve_ref(p, ref)
           kind == IF element = NoElement THEN "none" ELSE "value"
       IN  out' = [Ran(p, cmd) EXCEPT !.ref = ref, !.kind = kind,
                                !.stale = Stale(p, ref), !.after = JustResolved(p, ref),
                                !.resolved = element, !.exit = ResultExit(kind)]
    /\ cache' = [cache EXCEPT ![p] = [r \in DOMAIN cache[p] \ {ref} |-> cache[p][r]]]
    /\ UNCHANGED <<worldVars, focus, disk, started, state, counter, handed, wait>>

\* MacOSGUI.get_element_attr / inspect_element, then main's get / inspect branch
Get(p, ref, cmd) ==
    /\ CmdStep(p)
    /\ LET element == resolve_ref(p, ref)
           kind == IF element = NoElement THEN "none" ELSE "value"
       IN  out' = [Ran(p, cmd) EXCEPT !.ref = ref, !.kind = kind,
                                !.stale = Stale(p, ref), !.after = JustResolved(p, ref),
                                !.resolved = element, !.exit = ResultExit(kind)]
    /\ UNCHANGED <<worldVars, focus, disk, procVars>>

\* ------------------------------------------------------------- find
\* str.lower() on the strings that occur
Lower(s) ==
    CASE s = "OK" -> "ok"
      [] s = "Text" -> "text"
      [] s = "Save" -> "save"
      [] s = "Nope" -> "nope"
      [] s = "Untitled" -> "untitled"
      [] s = "AXWindow" -> "axwindow"
      [] s = "AXGroup" -> "axgroup"
      [] s = "AXButton" -> "axbutton"
      [] s = "AXTextField" -> "axtextfield"
      [] OTHER -> s

\* needle in haystack, on lower-case strings
Contains(haystack, needle) ==
    \/ needle = ""
    \/ needle = haystack
    \/ <<needle, haystack>> \in
          {<<"button", "axbutton">>, <<"text", "axtextfield">>, <<"k", "ok">>}

\* the criteria a caller passes to find ("None" for an option not given)
FindRoles == {"None", "button", "Text"}
FindLabels == {"None", "ok"}
FindContains == {"None", "k"}

\* find_elements' three tests on the element's current attributes: a criterion
\* that is given and fails skips the element
Matches(e, role_c, label_c, contains_c) ==
    /\ role_c # "None" => Contains(Lower(AXRole(e)), Lower(role_c))
    /\ label_c # "None" => Lower(label_c) = Lower(AXTitle(e))
    /\ contains_c # "None" => Contains(Lower(AXTitle(e)), Lower(contains_c))

\* the loop over _element_cache.items(), in insertion order (@g1, @g2, ...)
RECURSIVE MatchesFrom(_, _, _, _, _)
MatchesFrom(c, r, role_c, label_c, contains_c) ==
    IF r \notin DOMAIN c THEN <<>>
    ELSE (IF Matches(c[r], role_c, label_c, contains_c)
          THEN <<[ref |-> r, role |-> ShortRole(AXRole(c[r])), label |-> AXTitle(c[r])]>>
          ELSE <<>>)
         \o MatchesFrom(c, r + 1, role_c, label_c, contains_c)

\* find_elements with the implicit snapshot taken whatever the table holds
NeedsSnapshotAlways(c) == TRUE

\* find_elements' test "if not self.session._element_cache"
NeedsSnapshot(c) == DOMAIN c = {}

\* the memory and session file as a call that took no snapshot leaves them
Untouched(m, d) ==
    [state |-> m.state, counter |-> m.counter, cache |-> m.cache, disk |-> d,
     kind |-> "skipped", app |-> "None", elements |-> <<>>]

\* MacOSGUI.find_elements on the memory m and session file d: the memory and
\* file afterwards, the number of snapshots taken and the matches
find_elements(m, d, role_c, label_c, contains_c) ==
    Only({ [state |-> s.state, counter |-> s.counter, cache |-> s.cache, disk |-> s.disk,
            snaps |-> IF s.kind = "skipped" THEN 0 ELSE 1,
            matches |-> MatchesFrom(s.cache, 1, role_c, label_c, contains_c)] :
           s \in { IF NeedsSnapshot(m.cache)
                   THEN snapshot(m, d, "None", FALSE, DefaultMaxDepth)
                   ELSE Untouched(m, d) } })

\* the find command: MacOSGUI.find_elements, then main's output(result)
Find(p, role_c, label_c, contains_c) ==
    /\ CmdStep(p)
    /\ \E f \in {find_elements(Mem(p), disk, role_c, label_c, contains_c)} :
           /\ state' = [state EXCEPT ![p] = f.state]
           /\ cache' = [cache EXCEPT ![p] = f.cache]
           /\ counter' = [counter EXCEPT ![p] = f.counter]
           /\ disk' = f.disk
           /\ out' = [Ran(p, "find") EXCEPT !.kind = "matches", !.exit = EXIT_SUCCESS,
                                            !.criteria = <<role_c, label_c, contains_c>>,
                                            !.matches = f.matches, !.snaps = f.snaps,
                                            !.minted = DOMAIN f.cache \ DOMAIN cache[p]]
    /\ UNCHANGED <<worldVars, focus, started, handed, wait>>

\* ------------------------------------------------------------- wait
\* what a caller passes to wait: a ref with a condition, or --label / --role, or
\* --window with a title; and --timeout
WaitRefs == {1, MaxNodes + 1}
WaitConditions == {"exists", "enabled", "visible"}
WaitLabels == {"None", "ok", "Save"}
WaitRoles == {"None", "button"}
WaitTitles == {"", "Nope"}
Timeouts == {0, MaxTimeout}

\* main's choice between wait_for_window and wait_for_element, with the loop's
\* start: elapsed is time.time() - start
WaitArgs ==
    [kind : {"ref"}, ref : WaitRefs, condition : WaitConditions, label : {"None"},
     role : {"None"}, title : {"None"}, timeout : Timeouts]
    \cup
    [kind : {"search"}, ref : {NoRef}, condition : {"exists"}, label : WaitLabels,
     role : WaitRoles, title : {"None"}, timeout : Timeouts]
    \cup
    [kind : {"window"}, ref : {NoRef}, condition : {"exists"}, label : {"None"},
     role : {"None"}, title : WaitTitles, timeout : Timeouts]

\* the loop's record of a wait that has just set start = time.time()
Waiting(a) ==
    [kind |-> a.kind, ref |-> a.ref, condition |-> a.condition, label |-> a.label,
     role |-> a.role, title |-> a.title, timeout |-> a.timeout,
     elapsed |-> 0, checks |-> <<>>, sleeps |-> 0, snaps |-> 0, at |-> steps + 1]

\* the truth of _get_attribute(element, "AXEnabled" / "AXPosition"): the
\* provider's answer for a live element, None for a dead handle
AttrTruth(e) == IF Live(e) THEN {TRUE, FALSE} ELSE {FALSE}

\* wait_for_element's check of a ref: the outcomes the provider allows
RefCheck(p, w) ==
    IF resolve_ref(p, w.ref) = NoElement THEN {FALSE}
    ELSE IF w.condition = "exists" THEN {TRUE}
    ELSE AttrTruth(resolve_ref(p, w.ref))

\* wait_for_element's search by label / role: self.snapshot(), then
\* self.find_elements(role=role, label=label) on what the snapshot left
SearchCheck(m, d, w) ==
    Only({ Only({ [state |-> f.state, counter |-> f.counter, cache |-> f.cache,
                   disk |-> f.disk, snaps |-> 1 + f.snaps, matches |-> f.matches] :
                  f \in { find_elements([state |-> s.state, counter |-> s.counter,
                                         cache |-> s.cache],
                                        s.disk, w.role, w.label, "None") } }) :
           s \in { snapshot(m, d, "None", FALSE, DefaultMaxDepth) } })

\* get_windows(): the titles of the windows of the running applications
WindowTitles ==
    {IF AXTitle(WindowOf(a)) = "" THEN "Untitled" ELSE AXTitle(WindowOf(a)) :
         a \in {b \in running : hasWindow[b]}}

\* wait_for_window's check
WindowCheck(w) == \E t \in WindowTitles : Contains(Lower(t), Lower(w.title))

\* main's wait branch with the timeout reported as element-not-found
WaitExitNotFound(kind) ==
    IF kind = "timeout" THEN EXIT_ELEMENT_NOT_FOUND ELSE EXIT_SUCCESS

\* main's exit code for the result of a wait: None is the timeout
WaitExit(kind) == IF kind = "timeout" THEN EXIT_TIMEOUT ELSE EXIT_SUCCESS

\* the observation of a wait of p that returns
Returned(p, w, kind, ref, checks, snaps, elapsed) ==
    [NoOut EXCEPT !.proc = p, !.cmd = "wait", !.at = w.at,
                  !.kind = kind, !.exit = WaitExit(kind), !.ref = ref,
                  !.wait = w.kind, !.timeout = w.timeout, !.polls = checks,
                !.sleeps = w.sleeps, !.snaps = snaps, !.elapsed = elapsed,
                !.criteria = <<w.role, w.label, w.title>>]

\* the wait command starts: main parses the arguments and the loop sets start
WaitBegin(p, a) ==
    /\ CmdStep(p)
    /\ wait' = [wait EXCEPT ![p] = Waiting(a)]
    /\ out' = [Ran(p, "wait") EXCEPT !.kind = "waiting", !.ref = a.ref,
                                     !.wait = a.kind, !.timeout = a.timeout]
    /\ UNCHANGED <<worldVars, focus, disk, started, state, cache, counter, handed>>

\* one pass of the loop body: the loop test held, the check takes d ticks; a
\* check that succeeds returns, one that fails is followed by time.sleep(0.5)
WaitPoll(p) ==
    /\ started[p] /\ wait[p] # NoWait
    /\ wait[p].elapsed < wait[p].timeout
    /\ \E d \in 0..MaxCheck :
       LET w == wait[p]
           slept(ok, snaps) ==
               [w EXCEPT !.elapsed = w.elapsed + d + PollTicks,
                         !.checks = Append(w.checks, ok),
                         !.sleeps = w.sleeps + 1, !.snaps = snaps]
       IN  CASE w.kind = "ref" ->
                  \E ok \in RefCheck(p, w) :
                      /\ IF ok
                         THEN /\ out' = Returned(p, w, "found", w.ref, Append(w.checks, ok),
                                                 w.snaps, w.elapsed + d)
                              /\ wait' = [wait EXCEPT ![p] = NoWait]
                         ELSE /\ wait' = [wait EXCEPT ![p] = slept(ok, w.snaps)]
                              /\ out' = out
                      /\ UNCHANGED <<state, cache, counter, disk>>
             [] w.kind = "search" ->
                  \E c \in {SearchCheck(Mem(p), disk, w)} :
                      /\ state' = [state EXCEPT ![p] = c.state]
                      /\ cache' = [cache EXCEPT ![p] = c.cache]
                      /\ counter' = [counter EXCEPT ![p] = c.counter]
                      /\ disk' = c.disk
                      /\ IF Len(c.matches) > 0
                         THEN /\ out' = Returned(p, w, "found", c.matches[1].ref,
                                                 Append(w.checks, TRUE),
                                                 w.snaps + c.snaps, w.elapsed + d)
                              /\ wait' = [wait EXCEPT ![p] = NoWait]
                         ELSE /\ wait' = [wait EXCEPT ![p] = slept(FALSE, w.snaps + c.snaps)]
                              /\ out' = out
             [] w.kind = "window" ->
                  /\ IF WindowCheck(w)
                     THEN /\ out' = Returned(p, w, "found", NoRef, Append(w.checks, TRUE),
                                             w.snaps, w.elapsed + d)
                          /\ wait' = [wait EXCEPT ![p] = NoWait]
                     ELSE /\ wait' = [wait EXCEPT ![p] = slept(FALSE, w.snaps)]
                          /\ out' = out
                  /\ UNCHANGED <<state, cache, counter, disk>>
    /\ UNCHANGED <<worldVars, focus, started, handed, steps>>

\* the loop test fails: return None, and main ends with error("Timeout waiting")
WaitTimeout(p) ==
    /\ started[p] /\ wait[p] # NoWait
    /\ wait[p].elapsed >= wait[p].timeout
    /\ out' = Returned(p, wait[p], "timeout", wait[p].ref, wait[p].checks,
                       wait[p].snaps, wait[p].elapsed)
    /\ wait' = [wait EXCEPT ![p] = NoWait]
    /\ UNCHANGED <<worldVars, focus, disk, started, state, cache, counter, handed, steps>>

\* -------------------------------------------------------------- Next
\* the environment changes on its own
Env ==
    \/ \E a \in Apps : Quit(a)
    \/ \E a \in Apps : Activate(a)
    \/ \E a \in Apps : CloseWindow(a)
    \/ \E n \in TreeNodes : RemoveSubtree(n)
    \/ \E n \in TreeNodes, l \in Labels : SetLabel(n, l)
    \/ \E n \in TreeNodes, r \in Roles : SetRole(n, r)

\* the commands of process p, with the command line's default depth
Cmd(p) ==
    \/ \E a \in AppNames, i \in BOOLEAN : Snapshot(p, a, i, DefaultMaxDepth)
    \/ Reset(p)
    \/ \E r \in Refs, a \in ClickActions : Click(p, r, a)
    \/ \E r \in Refs \cup {NoRef} : TypeText(p, r)
    \/ \E r \in Refs : Fill(p, r)
    \/ \E r \in Refs, c \in {"get", "inspect"} : Get(p, r, c)

\* one invocation, p1, whose commands run against a changing environment
Next ==
    \/ Env
    \/ Start("p1")
    \/ Cmd("p1")

Spec == Init /\ [][Next]_vars

\* one invocation that takes snapshots and searches the ref table while the
\* environment changes
NextFind ==
    \/ Env
    \/ Start("p1")
    \/ \E a \in AppNames, i \in BOOLEAN : Snapshot("p1", a, i, DefaultMaxDepth)
    \/ \E r \in FindRoles, l \in FindLabels, c \in FindContains : Find("p1", r, l, c)

SpecFind == Init /\ [][NextFind]_vars

\* the wait command of process p: its start and the passes of its loop
WaitCmd(p) ==
    \/ \E a \in WaitArgs : WaitBegin(p, a)
    \/ WaitPoll(p)
    \/ WaitTimeout(p)

\* one invocation that takes snapshots and waits while the environment changes
NextWait ==
    \/ Env
    \/ Start("p1")
    \/ \E a \in AppNames : Snapshot("p1", a, FALSE, DefaultMaxDepth)
    \/ WaitCmd("p1")

SpecWait == Init /\ [][NextWait]_vars

\* two invocations that load the session file and save to it in any order
NextSave ==
    \/ \E a \in Apps : Activate(a)
    \/ \E p \in Procs : Start(p)
    \/ \E p \in Procs, a \in AppNames : Snapshot(p, a, FALSE, DefaultMaxDepth)
    \/ \E p \in Procs : Reset(p)
    \/ \E p \in Procs : TypeText(p, NoRef)

SpecSave == Init /\ [][NextSave]_vars

\* two invocations sharing the session file
NextTwo ==
    \/ Env
    \/ \E p \in Procs : Start(p)
    \/ \E p \in Procs : Cmd(p)

SpecTwo == Init /\ [][NextTwo]_vars

\* ------------------------------------------ a long history on file
\* The session file earlier invocations left: n recorded actions, oldest first.
OldHistory(n) ==
    [i \in 1..n |-> [action |-> "click", ref |-> 1, timestamp |-> i - n - 1]]
HistLens == {0, HistoryLimit - 2, HistoryLimit - 1, HistoryLimit}

HistInit ==
    /\ running = Apps
    /\ frontmost = "Notes"
    /\ hasWindow = [a \in Apps |-> TRUE]
    /\ attached = Elements
    /\ role = [e \in Elements |-> InitRole(e)]
    /\ label = [e \in Elements |-> InitLabel(e)]
    /\ unreadable = {}
    /\ focus = WindowOf("Notes")
    /\ disk \in {<<DictSet(DefaultState, "history", OldHistory(n))>> : n \in HistLens}
    /\ started = [p \in Procs |-> FALSE]
    /\ state = [p \in Procs |-> DefaultState]
    /\ cache = [p \in Procs |-> EmptyCache]
    /\ counter = [p \in Procs |-> 0]
    /\ handed = [p \in Procs |-> {}]
    /\ wait = [p \in Procs |-> NoWait]
    /\ out = NoOut
    /\ steps = 0

\* one invocation that loads the file, takes snapshots and acts on refs
HistNext ==
    \/ Start("p1")
    \/ Snapshot("p1", "None", FALSE, DefaultMaxDepth)
    \/ \E r \in Refs, a \in ClickActions : Click("p1", r, a)
    \/ \E r \in Refs \cup {NoRef} : TypeText("p1", r)
    \/ \E r \in Refs : Fill("p1", r)

SpecHist == HistInit /\ [][HistNext]_vars

\* --------------------------------------- session files of other shapes
\* A session file with every field, one without the history list, and one with
\* a field this program does not know.
FullFile ==
    [app |-> "Notes", pid |-> "pid501", window |-> "None",
     last_snapshot |-> <<>>, history |-> <<>>]
NoHistoryFile ==
    [app |-> "Notes", pid |-> "pid501", window |-> "None", last_snapshot |-> <<>>]
ExtraFieldFile ==
    [app |-> "Notes", pid |-> "pid501", window |-> "None",
     last_snapshot |-> <<>>, history |-> <<>>, epoch |-> <<>>]

LoadInit ==
    /\ running = Apps
    /\ frontmost = "Notes"
    /\ hasWindow = [a \in Apps |-> TRUE]
    /\ attached = Elements
    /\ role = [e \in Elements |-> InitRole(e)]
    /\ label = [e \in Elements |-> InitLabel(e)]
    /\ unreadable = {}
    /\ focus = WindowOf("Notes")
    /\ disk \in {<<FullFile>>, <<NoHistoryFile>>, <<ExtraFieldFile>>}
    /\ started = [p \in Procs |-> FALSE]
    /\ state = [p \in Procs |-> DefaultState]
    /\ cache = [p \in Procs |-> EmptyCache]
    /\ counter = [p \in Procs |-> 0]
    /\ handed = [p \in Procs |-> {}]
    /\ wait = [p \in Procs |-> NoWait]
    /\ out = NoOut
    /\ steps = 0

\* one invocation that loads the file, sets its target and acts on refs
LoadNext ==
    \/ Start("p1")
    \/ \E a \in AppNames : Snapshot("p1", a, FALSE, DefaultMaxDepth)
    \/ Reset("p1")
    \/ \E r \in Refs, a \in ClickActions : Click("p1", r, a)
    \/ \E r \in Refs \cup {NoRef} : TypeText("p1", r)
    \/ \E r \in Refs : Fill("p1", r)

SpecLoad == LoadInit /\ [][LoadNext]_vars

\* ------------------------------------------------- the walk on its own
\* Snapshots of the Notes window, for every tree of at most MaxNodes elements
\* and every assignment of roles, at every depth 0..MaxDepth, filtered and not.
SubtreeClosed(S) == 1 \in S /\ \A n \in S : n > 1 => ParentOf(n) \in S
WalkRoles ==
    {f \in [Elements -> {"AXWindow", "AXGroup", "AXButton"}] :
        \A e \in Elements : (f[e] = "AXWindow") <=> (e = 1 \/ e = MaxNodes + 1)}

WalkInit ==
    /\ running = Apps
    /\ frontmost = "Notes"
    /\ hasWindow = [a \in Apps |-> TRUE]
    /\ attached \in {S \cup {MaxNodes + 1} : S \in {T \in SUBSET TreeNodes : SubtreeClosed(T)}}
    /\ role \in WalkRoles
    /\ label = [e \in Elements |-> InitLabel(e)]
    /\ unreadable = {}
    /\ focus = WindowOf("Notes")
    /\ disk = <<>>
    /\ started = [p \in Procs |-> p = "p1"]
    /\ state = [p \in Procs |-> DefaultState]
    /\ cache = [p \in Procs |-> EmptyCache]
    /\ counter = [p \in Procs |-> 0]
    /\ handed = [p \in Procs |-> {}]
    /\ wait = [p \in Procs |-> NoWait]
    /\ out = NoOut
    /\ steps = 0

WalkNext == \E i \in BOOLEAN, d \in 0..MaxDepth : Snapshot("p1", "None", i, d)

SpecWalk == WalkInit /\ [][WalkNext]_vars

\* The same snapshots when some elements of the Notes tree answer their
\* attribute reads with an error.
ReadInit ==
    /\ running = Apps
    /\ frontmost = "Notes"
    /\ hasWindow = [a \in Apps |-> TRUE]
    /\ attached \in {S \cup {MaxNodes + 1} : S \in {T \in SUBSET TreeNodes : SubtreeClosed(T)}}
    /\ role \in WalkRoles
    /\ label = [e \in Elements |-> InitLabel(e)]
    /\ unreadable \in (SUBSET TreeNodes) \ {{}}
    /\ focus = WindowOf("Notes")
    /\ disk = <<>>
    /\ started = [p \in Procs |-> p = "p1"]
    /\ state = [p \in Procs |-> DefaultState]
    /\ cache = [p \in Procs |-> EmptyCache]
    /\ counter = [p \in Procs |-> 0]
    /\ handed = [p \in Procs |-> {}]
    /\ wait = [p \in Procs |-> NoWait]
    /\ out = NoOut
    /\ steps = 0

SpecRead == ReadInit /\ [][WalkNext]_vars

\* the keys of an element dict in the flat list
ElemKeys == {"ref", "element", "role", "label", "children"}

\* the elements below e down to max_depth, parents before children, the
\* children of a node in the order AXChildren gives them
RECURSIVE Preorder(_, _, _)
RECURSIVE PreorderAll(_, _, _)
Preorder(e, depth, max_depth) ==
    <<e>> \o (IF depth < max_depth
              THEN PreorderAll(AXChildren(e), depth + 1, max_depth) ELSE <<>>)
PreorderAll(es, depth, max_depth) ==
    IF es = <<>> THEN <<>>
    ELSE Preorder(Head(es), depth, max_depth) \o PreorderAll(Tail(es), depth, max_depth)

\* the depth of a tree element below its window
RECURSIVE DepthOf(_)
DepthOf(n) == IF n <= 1 \/ n > MaxNodes THEN 0 ELSE 1 + DepthOf(ParentOf(n))

\* the last command was a snapshot that walked a window
Walked == out.cmd = "snapshot" /\ out.kind = "snapshot"
ElementsOf(o) == {o.elements[i].element : i \in 1..Len(o.elements)}

\* ================================================================ claims

\* C1: resolving a ref that a snapshot of this process handed to the caller
\* returns the element the ref was handed out for, or fails; the binding is never
\* rewritten by a later snapshot.
C1_RefNeverRebound ==
    \A p \in Procs : \A d \in handed[p] :
        resolve_ref(p, d.ref) \in {d.element, NoElement}

\* C2: within the life of a process the ref counter never decreases and no
\* command mints a ref that is already in the table.
C2_RefsNeverMintedAgain ==
    [][\A p \in Procs :
          (started[p] /\ started'[p]) =>
              /\ counter'[p] >= counter[p]
              /\ (out'.cmd = "snapshot" /\ out'.proc = p /\ out'.at # out.at)
                    => out'.minted \cap DOMAIN cache[p] = {}]_vars

\* the environment is as it was when the first invocation started
TreeUnchanged ==
    /\ running = Apps /\ attached = Elements
    /\ \A a \in Apps : hasWindow[a]
    /\ \A e \in Elements : role[e] = InitRole(e) /\ label[e] = InitLabel(e)

\* C3: a click by invocation p2, which took no snapshot of its own, on a ref that
\* the snapshot of invocation p1 returned and persisted, with the tree unchanged,
\* reaches the element of that ref and performs an action on it; it does not end
\* with element-not-found.
C3_CrossProcessClick ==
    (/\ out.cmd = "click" /\ out.proc = "p2" /\ counter["p2"] = 0
     /\ TreeUnchanged
     /\ state["p1"].last_snapshot # <<>>
     /\ out.ref \in DOMAIN cache["p1"])
    => (/\ out.exit # EXIT_ELEMENT_NOT_FOUND
        /\ out.resolved = cache["p1"][out.ref]
        /\ out.performed # <<>>)

\* C4: a click on a stale ref (its element left the live tree, or its role or
\* label no longer matches the snapshot) dispatches no provider action and ends
\* neither in success nor in an action failure.
C4_StaleRefNoAction ==
    (out.cmd = "click" /\ out.stale)
    => (out.performed = <<>> /\ out.kind \notin {"clicked", "error"})

\* C5: click, fill, get and inspect on a ref absent from the table end with exit
\* code 3, make no provider call, send no keystroke and leave the session (and so
\* its history) and the session file as they were.
C5_AbsentRefNotFound ==
    [][\A p \in Procs :
          (/\ out'.proc = p /\ out'.at # out.at
           /\ out'.cmd \in {"click", "fill", "get", "inspect"}
           /\ out'.ref \notin DOMAIN cache[p])
          => (/\ out'.exit = EXIT_ELEMENT_NOT_FOUND
              /\ out'.performed = <<>>
              /\ out'.keys = <<>>
              /\ state'[p] = state[p]
              /\ disk' = disk)]_vars

\* C5 witness: a click, fill, get or inspect reported element-not-found for a ref
\* that an earlier snapshot had handed out (the table was reset since).
C5_Witness ==
    /\ out.cmd \in {"click", "fill", "get", "inspect"}
    /\ out.exit = EXIT_ELEMENT_NOT_FOUND
    /\ \E d \in handed[out.proc] : d.ref = out.ref

\* C6: type with a ref that does not resolve sends no keystrokes and does not
\* report success.
C6_TypeUnresolvedSendsNothing ==
    (out.cmd = "type" /\ out.ref # NoRef /\ out.resolved = NoElement)
    => (out.keys = <<>> /\ out.exit # EXIT_SUCCESS)

\* C7: when the provider's last perform call of a click on a resolved ref
\* returned an error, the command ends with the ActionFailed exit code.
C7_FailedClickExitsActionFailed ==
    (/\ out.cmd = "click" /\ out.performed # <<>>
     /\ out.performed[Len(out.performed)].err # 0)
    => out.exit = EXIT_ACTION_FAILED

\* C8: a snapshot whose target application is not running or has no
\* window never ends with a successful result.
C8_NoTargetNeverSucceeds ==
    (out.cmd = "snapshot" /\ out.target \in {"absent", "nowindow"})
    => out.exit # EXIT_SUCCESS

\* C9: within one snapshot the element list holds no ref twice, every element
\* walked has its own ref (the table binds as many refs as elements were walked,
\* no two to the same element), and each listed ref is bound to the element its
\* dict describes.
C9_DistinctRefs ==
    Walked =>
        LET p == out.proc
            walked == {n \in TreeNodes \cap attached : DepthOf(n) <= out.max_depth}
        IN  /\ \A i, j \in 1..Len(out.elements) :
                  i # j => out.elements[i].ref # out.elements[j].ref
            /\ \A r1, r2 \in DOMAIN cache[p] : r1 # r2 => cache[p][r1] # cache[p][r2]
            /\ {cache[p][r] : r \in DOMAIN cache[p]} = walked
            /\ \A i \in 1..Len(out.elements) :
                  /\ out.elements[i].ref \in DOMAIN cache[p]
                  /\ cache[p][out.elements[i].ref] = out.elements[i].element

\* C9 witness: a snapshot listed at least three elements.
C9_Witness == Walked /\ Len(out.elements) >= 3

\* C10: a walk records only elements at depth <= max_depth, an element at depth
\* max_depth is recorded without children (every such element is recorded by an
\* unfiltered walk), and with max_depth = 0 the result is the window alone, with
\* no children and exactly one ref minted.
C10_DepthBound ==
    Walked =>
        /\ \A i \in 1..Len(out.elements) :
              /\ DepthOf(out.elements[i].element) <= out.max_depth
              /\ DepthOf(out.elements[i].element) = out.max_depth
                    => out.elements[i].children = <<>>
        /\ ~out.interactive_only =>
              \A n \in TreeNodes \cap attached :
                  DepthOf(n) = out.max_depth => n \in ElementsOf(out)
        /\ out.max_depth = 0 =>
              /\ Len(out.elements) = 1
              /\ out.elements[1].element = WindowOf("Notes")
              /\ out.elements[1].children = <<>>
              /\ out.minted = {1}
              /\ counter[out.proc] = 1

\* C10 witness: a walk stopped at depth 1 of a tree that is deeper.
C10_Witness ==
    /\ Walked /\ out.max_depth = 1
    /\ \E n \in TreeNodes \cap attached : DepthOf(n) > 1
    /\ \E i \in 1..Len(out.elements) : DepthOf(out.elements[i].element) = 1

\* C11: every element that a snapshot with interactive_only = true returns is
\* returned, for the same node with the same ref, role and label, by a snapshot
\* of the same unchanged tree at the same depth with interactive_only = false.
C11_FilteredSubset ==
    (Walked /\ out.interactive_only) =>
        \E full \in {snapshot(Mem(out.proc), disk, out.arg, FALSE, out.max_depth)} :
            \A i \in 1..Len(out.elements) :
                \E j \in 1..Len(full.elements) :
                    /\ full.elements[j].element = out.elements[i].element
                    /\ full.elements[j].ref = out.elements[i].ref
                    /\ full.elements[j].role = out.elements[i].role
                    /\ full.elements[j].label = out.elements[i].label

\* C11 witness: a filtered snapshot returned some elements of the tree below the
\* window and left out another that is within the depth bound.
C11_Witness ==
    /\ Walked /\ out.interactive_only /\ Len(out.elements) >= 2
    /\ \E n \in TreeNodes \cap attached :
          DepthOf(n) <= out.max_depth /\ n \notin ElementsOf(out)

\* C12: in an interactive_only walk the window is always returned, and an element
\* below it is returned exactly when it is within the depth bound and its own
\* role is interactive or one of its children is retained; so the parent of every
\* returned element is returned too.
C12_RetainedBottomUp ==
    (Walked /\ out.interactive_only) =>
        LET ret[n \in TreeNodes] ==
                /\ n \in attached /\ DepthOf(n) <= out.max_depth
                /\ \/ role[n] \in interactive_roles
                   \/ \E c \in TreeNodes : c > n /\ ParentOf(c) = n /\ ret[c]
        IN  /\ WindowOf("Notes") \in ElementsOf(out)
            /\ \A n \in TreeNodes \ {1} : (n \in ElementsOf(out)) <=> ret[n]
            /\ \A n \in ElementsOf(out) : n > 1 => ParentOf(n) \in ElementsOf(out)

\* C12 witness: a filtered walk kept a non-interactive element for its
\* interactive child and dropped another non-interactive element.
C12_Witness ==
    /\ Walked /\ out.interactive_only
    /\ \E n \in ElementsOf(out) :
          n > 1 /\ role[n] \notin interactive_roles
    /\ \E n \in TreeNodes \cap attached :
          DepthOf(n) <= out.max_depth /\ n \notin ElementsOf(out)

\* C18: a find on a non-empty ref table takes no snapshot, mints no ref and
\* leaves the table and the counter as they were; a find on an empty table takes
\* exactly one snapshot before it searches; and every match returned names a ref
\* of the table as the find left it whose element satisfies every criterion given.
C18_FindFrame ==
    [][\A p \in Procs :
          (out'.cmd = "find" /\ out'.proc = p /\ out'.at # out.at) =>
              /\ DOMAIN cache[p] # {} =>
                    /\ out'.snaps = 0 /\ out'.minted = {}
                    /\ cache'[p] = cache[p] /\ counter'[p] = counter[p]
              /\ DOMAIN cache[p] = {} => out'.snaps = 1
              /\ \A i \in 1..Len(out'.matches) :
                    /\ out'.matches[i].ref \in DOMAIN cache'[p]
                    /\ Matches(cache'[p][out'.matches[i].ref], out'.criteria[1],
                               out'.criteria[2], out'.criteria[3])]_vars

\* C18 witness: a find with a role criterion on a table that a snapshot had
\* filled returned a match without taking a snapshot.
C18_Witness ==
    /\ out.cmd = "find" /\ out.snaps = 0 /\ out.criteria[1] # "None"
    /\ Len(out.matches) >= 1
    /\ \E e \in TreeNodes : e \in DOMAIN cache[out.proc] /\ e \notin
          {out.matches[i].ref : i \in 1..Len(out.matches)}

\* C13: a wait by label / role that ends in Timeout (no check found a match)
\* returns when at least the timeout has elapsed since the call started and less
\* than the timeout plus one poll interval, whatever time the checks took.
C13_TimeoutWithinOnePoll ==
    (out.cmd = "wait" /\ out.wait = "search" /\ out.kind = "timeout")
    => (out.elapsed >= out.timeout /\ out.elapsed < out.timeout + PollTicks)

\* C14: a wait returns Found at the first check that succeeds (every earlier
\* check failed, it slept only after the failed ones, and no wait goes on after a
\* successful check); a wait none of whose checks succeeded returns only
\* Timeout, with exit code 5, also for a ref that was never minted.
C14_FoundAtFirstSuccessElseTimeout ==
    /\ \A p \in Procs :
          wait[p] # NoWait =>
              /\ \A i \in 1..Len(wait[p].checks) : ~wait[p].checks[i]
              /\ wait[p].sleeps = Len(wait[p].checks)
    /\ (out.cmd = "wait" /\ out.kind = "found") =>
          /\ Len(out.polls) > 0 /\ out.polls[Len(out.polls)]
          /\ \A i \in 1..(Len(out.polls) - 1) : ~out.polls[i]
          /\ out.sleeps = Len(out.polls) - 1
          /\ out.exit = EXIT_SUCCESS
    /\ (out.cmd = "wait" /\ out.kind # "waiting"
         /\ \A i \in 1..Len(out.polls) : ~out.polls[i]) =>
          /\ out.kind = "timeout" /\ out.exit = EXIT_TIMEOUT
          /\ out.elapsed >= out.timeout

\* C14 witness: a wait found its element at the second check, after one that
\* failed.
C14_Witness == out.cmd = "wait" /\ out.kind = "found" /\ Len(out.polls) >= 2

\* C15: no step of a wait on a ref changes the ref table, the ref counter, the
\* session or the session file, and it takes no snapshot; a wait by label / role
\* takes exactly one snapshot in each pass of its loop, and a wait for a window
\* none.
C15_OnlySearchWaitSnapshots ==
    [][\A p \in Procs :
          /\ (\/ (wait[p] # NoWait /\ wait[p].kind = "ref")
              \/ (wait'[p] # NoWait /\ wait'[p].kind = "ref")) =>
                /\ cache'[p] = cache[p] /\ counter'[p] = counter[p]
                /\ state'[p] = state[p] /\ disk' = disk
          /\ (wait[p] # NoWait /\ wait'[p] # wait[p]) =>
                LET after == IF wait'[p] = NoWait THEN out'.snaps ELSE wait'[p].snaps
                    checks == IF wait'[p] = NoWait THEN out'.polls ELSE wait'[p].checks
                    passes == Len(checks) - Len(wait[p].checks)
                IN  after - wait[p].snaps =
                        IF wait[p].kind = "search" THEN passes ELSE 0]_vars

\* C16: when a get or inspect resolved a ref and the very next step is again a
\* get or inspect of the same ref by the same process (no snapshot, reset or
\* change of the tree in between), the second resolves to the same element, and
\* it changes neither the ref table, the ref counter, the session nor the file.
C16_ResolveTwiceSame ==
    [][\A p \in Procs :
          (/\ out.cmd \in {"get", "inspect"} /\ out.proc = p /\ out.at = steps
           /\ out.resolved # NoElement
           /\ out'.cmd \in {"get", "inspect"} /\ out'.proc = p /\ out'.at = steps + 1
           /\ out'.ref = out.ref)
          => (/\ out'.resolved = out.resolved
              /\ cache'[p] = cache[p] /\ counter'[p] = counter[p]
              /\ state'[p] = state[p] /\ disk' = disk)]_vars

\* C16 witness: a get or inspect resolved a ref right after another had
\* resolved the same ref.
C16_Witness ==
    /\ out.cmd \in {"get", "inspect"} /\ out.resolved # NoElement
    /\ out.after

\* C17: after a reset no ref resolves, the ref table holds no binding and the
\* counter is back at its start, the session's app, pid, window, last-snapshot
\* marker and history are empty, and the session file holds that empty session.
C17_ResetEmptiesSession ==
    \A p \in Procs :
        (out.cmd = "reset" /\ out.proc = p) =>
            /\ \A r \in Refs : resolve_ref(p, r) = NoElement
            /\ DOMAIN cache[p] = {} /\ counter[p] = 0
            /\ state[p].app = "None" /\ state[p].pid = "None"
            /\ state[p].window = "None"
            /\ state[p].last_snapshot = <<>> /\ state[p].history = <<>>
            /\ disk = <<state[p]>>
            /\ out.exit = EXIT_SUCCESS

\* C17 witness: a reset ran in a process whose snapshot had handed out refs.
C17_Witness == out.cmd = "reset" /\ handed[out.proc] # {}

\* C19: when a click, type or fill that records its action (a click that was
\* performed, a type, a fill) runs on a history of at most 100 entries, the history afterwards holds at most 100 entries: the new entry
\* last, before it the most recent of the earlier entries in their order (the
\* oldest one dropped when there were 100), timestamps ascending.
C19_HistoryBounded ==
    [][\A p \in Procs :
          LET h == state[p].history
              h2 == state'[p].history
          IN  (/\ out'.cmd \in {"click", "type", "fill"} /\ out'.proc = p
               /\ out'.kind \in {"clicked", "typed", "filled"}
               /\ out'.at # out.at /\ Len(h) <= HistoryLimit)
              => (/\ Len(h2) <= HistoryLimit
                  /\ Len(h2) = IF Len(h) < HistoryLimit THEN Len(h) + 1 ELSE HistoryLimit
                  /\ h2[Len(h2)].timestamp = steps
                  /\ \A i \in 1..(Len(h2) - 1) : h2[i] = h[i + Len(h) + 1 - Len(h2)]
                  /\ \A i \in 1..(Len(h2) - 1) :
                        h2[i].timestamp < h2[i + 1].timestamp)]_vars

\* C19 witness: the history is full, its oldest entries were dropped and its
\* newest entry was recorded by this invocation.
C19_Witness ==
    \E p \in Procs :
        /\ Len(state[p].history) = HistoryLimit
        /\ state[p].history[1].timestamp > 0 - HistoryLimit
        /\ state[p].history[HistoryLimit].timestamp >= 1

\* C20: every click, fill or type that reached a resolved element appends
\* exactly one entry to the session history, whether the provider's call
\* succeeded or returned an error.
C20_DispatchedActionsRecorded ==
    [][\A p \in Procs :
          (/\ out'.cmd \in {"click", "fill", "type"} /\ out'.proc = p
           /\ out'.at # out.at /\ out'.resolved # NoElement)
          => (/\ Len(state'[p].history) = Len(state[p].history) + 1
              /\ state'[p].history[Len(state'[p].history)].timestamp = steps)]_vars

\* C21: with two invocations saving in any order, every command that records an
\* action, sets the target or resets leaves on file exactly the whole session
\* that its own process holds in memory, whatever the other process had saved;
\* no other step writes the file.  So the file is always the session of the
\* last writer.
C21_LastWriterWins ==
    [][\A p \in Procs :
          (out'.proc = p /\ out'.at # out.at) =>
              IF out'.kind \in {"typed", "clicked", "filled", "reset", "snapshot", "warning"}
              THEN disk' = <<state'[p]>>
              ELSE disk' = disk]_vars

\* C21 witness: both invocations recorded an action; the file holds the session
\* of the one that saved last, without the entry the other had saved.
C21_Witness ==
    /\ state["p1"].history # <<>> /\ state["p2"].history # <<>>
    /\ out.cmd = "type" /\ disk = <<state[out.proc]>>
    /\ \E q \in Procs \ {out.proc} :
          \A i \in 1..Len(disk[1].history) :
              disk[1].history[i] # state[q].history[Len(state[q].history)]

\* C22: after loading a session file that lacks a field or has an unknown one, a
\* command that records an action or sets the target completes normally: it
\* never ends in an uncaught exception.
C22_MissingFieldsDefaultEmpty ==
    (out.cmd \in {"click", "type", "fill", "snapshot"}) => out.kind # "crash"

\* C23: a click or action on a resolved ref makes at most two provider perform
\* calls, both on the resolved element: the requested action first, and then,
\* exactly when that call failed and the requested action was not the press,
\* one press. A failing press is not attempted again.
C23_AtMostOneFallback ==
    (out.cmd = "click" /\ out.resolved # NoElement) =>
        LET calls == out.performed
        IN  /\ Len(calls) \in {1, 2}
            /\ \A i \in 1..Len(calls) : calls[i].element = out.resolved
            /\ calls[1].action = action_map(out.arg)
            /\ Len(calls) = 2 <=> (calls[1].err # 0 /\ calls[1].action # "AXPress")
            /\ Len(calls) = 2 => calls[2].action = "AXPress"

\* a requested action other than the press failed and the press was tried once
C23_Witness ==
    /\ out.cmd = "click" /\ out.resolved # NoElement
    /\ Len(out.performed) = 2
    /\ out.performed[1].action # "AXPress" /\ out.performed[1].err # 0

\* C24: a node whose children or attributes the provider refuses to read during
\* a walk is still recorded, with an empty children list and a diagnostic flag,
\* that is a key the dict of a cleanly read node does not have; the walk goes on
\* with its siblings.
C24_ReadErrorFlagged ==
    Walked =>
        /\ \A e \in TreeNodes :
               (Live(e) /\ DepthOf(e) <= out.max_depth /\ ~out.interactive_only
                   /\ \A a \in TreeNodes : IsUnder(e, a) /\ a # e => Reads(a))
               => e \in ElementsOf(out)
        /\ \A i \in 1..Len(out.elements) :
               out.elements[i].element \in unreadable =>
                   /\ out.elements[i].children = <<>>
                   /\ DOMAIN out.elements[i] \ ElemKeys # {}

\* C25: in an unfiltered snapshot the flat list is the depth-first pre-order of
\* the window's tree down to max_depth with children in provider order, the k-th
\* element carries ref k, each children list names the refs of the node's direct
\* children in provider order, and the element count equals the number of refs
\* minted.
C25_FlatListIsPreorder ==
    (Walked /\ ~out.interactive_only) =>
        LET pre == Preorder(WindowOf(state[out.proc].app), 0, out.max_depth)
            n == Len(out.elements)
            RefOf(e) == CHOOSE i \in 1..n : out.elements[i].element = e
        IN  /\ n = Len(pre)
            /\ \A k \in 1..n :
                   /\ out.elements[k].element = pre[k]
                   /\ out.elements[k].ref = k
                   /\ out.elements[k].children =
                         (IF DepthOf(pre[k]) < out.max_depth
                          THEN [j \in 1..Len(AXChildren(pre[k])) |->
                                   RefOf(AXChildren(pre[k])[j])]
                          ELSE <<>>)
            /\ n = Cardinality(out.minted)

\* a full walk of a tree in which a grandchild comes before its parent's sibling
C25_Witness ==
    /\ Walked /\ ~out.interactive_only
    /\ Len(out.elements) >= 4
    /\ \E k \in 1..(Len(out.elements) - 1) :
           /\ out.elements[k].element > out.elements[k + 1].element
           /\ out.elements[k + 1].children = <<>>
    /\ \E k \in 1..Len(out.elements) : Len(out.elements[k].children) = 2

\* C26: a snapshot that fails because the application is not found leaves the
\* process as it was: the ref table and the counter are unchanged, so the refs of
\* the previous snapshot still resolve, and so are the session and its file.
C26_FailedSnapshotChangesNothing ==
    [][\A p \in Procs :
          (out'.proc = p /\ out'.at # out.at /\ out'.cmd = "snapshot"
              /\ out'.kind = "none")
          => /\ cache'[p] = cache[p]
             /\ counter'[p] = counter[p]
             /\ state'[p] = state[p]
             /\ disk' = disk]_vars

\* C27: after a successful snapshot, filtered or not, the refs that resolve are
\* exactly the refs of the returned element list: the table holds no ref for a
\* node that the filter left out.
C27_TableIsReturnedRefs ==
    Walked =>
        DOMAIN cache[out.proc] = {out.elements[i].ref : i \in 1..Len(out.elements)}

\* C28: for every timeout, zero included, a wait evaluates its condition at
\* least once before it reports Timeout.
C28_CheckedBeforeTimeout ==
    (out.cmd = "wait" /\ out.kind = "timeout") => Len(out.polls) >= 1

\* C29: a fill on a resolved ref whose set-value the provider rejects, and whose
\* text does not reach the referenced element, reports an action failure: fill
\* never reports success for text typed into another element that holds the
\* focus.
C29_FillNeverTypesElsewhere ==
    (out.cmd = "fill" /\ out.resolved # NoElement
        /\ out.performed[1].err # 0
        /\ \E i \in 1..Len(out.keys) : out.keys[i] # out.resolved)
    => out.exit = EXIT_ACTION_FAILED

\* C30: the snapshot that a find takes when the table is empty, and the one each
\* poll of a label or role wait takes, is a snapshot of the application recorded
\* in the session: neither changes the recorded target (application and pid),
\* whatever application is frontmost.
C30_ImplicitSnapshotKeepsTarget ==
    [][\A p \in Procs :
          (/\ started[p] /\ state[p].app # "None"
           /\ \/ wait[p] # NoWait
              \/ (out'.proc = p /\ out'.at # out.at /\ out'.cmd = "find"))
          => /\ state'[p].app = state[p].app
             /\ state'[p].pid = state[p].pid]_vars

====
